---- MODULE Spec2Model ----
(***************************************************************************)
(* Answer synthesis and continuous-learning pipeline.                      *)
(*                                                                         *)
(*   training/complete_synthesis_system.py  sources, LlamaReviewer,        *)
(*                                          LearningDatabase, process_query*)
(*   training/continuous_retrain.py         ContinuousRetrainer            *)
(*   training/adapter_manager.py            AdapterManager                 *)
(*   training/train_mistral_lora.py         command line of the trainer    *)
(*                                                                         *)
(* Confidences are hundredths (0.7 is 70).  Rows of a relation are the     *)
(* elements of a sequence; a row's id is its index (AUTOINCREMENT).        *)
(***************************************************************************)
EXTENDS Integers, Sequences, FiniteSets, TLC

VARIABLES
    \* ---- knowledge.db
    conversations,    \* relation written by LearningDatabase: <<confidence>>
    store_log,        \* confidences passed to store_for_training, in call order
    rd_exists,        \* the relation retraining_data exists in the database
    retraining_data,  \* relation read by ContinuousRetrainer: [confidence, used_for_training]
    \* ---- ContinuousRetrainer processes
    pc,               \* position of each scheduler process
    stats,            \* the stats dict check_and_retrain last computed
    samples,          \* row ids fetched by prepare_retraining_dataset's SELECT
    marked,           \* row ids flipped by prepare_retraining_dataset's UPDATE
    ret,              \* last value returned by check_and_retrain
    datasets,         \* retraining_batch_*.json files written, in order
    \* ---- AdapterManager
    adapters,         \* versions v whose mistral_lora_v/adapter exists
    link,             \* what is at production_link_path
    apc,              \* position of each activate_adapter caller
    aversion,         \* version argument of each caller
    aold,             \* what was at production_link_path when the call began
    aret,             \* last value returned to each caller
    \* ---- CompleteSynthesisSystem
    config,           \* sources the system was constructed with
    qpc,              \* position of process_query
    all_answers,      \* answers collected so far
    review,           \* what the reviewer model produced for this query
    result,           \* dict returned by review_and_synthesize
    response          \* what the caller of process_query got

learning_vars == <<conversations, store_log, rd_exists, retraining_data>>
sched_vars    == <<pc, stats, samples, marked, ret, datasets>>
adapter_vars  == <<adapters, link, apc, aversion, aold, aret>>
synth_vars    == <<config, qpc, all_answers, review, result, response>>
vars == <<learning_vars, sched_vars, adapter_vars, synth_vars>>

----------------------------------------------------------------------------
(* Bounds of the model *)

MaxRows == 3          \* rows in retraining_data
MaxDatasets == 2      \* dataset files written
MaxCalls == 3         \* store_for_training calls
MinSamples == 2       \* ContinuousRetrainer.min_samples (--min), scaled down

(* Program constants *)

TStore == 70          \* store_for_training: confidence < 0.7 is skipped
MinConfidence == 80   \* ContinuousRetrainer.min_confidence default

Procs == {"loop", "once"}       \* main(): --loop N and --once
AllVersions == {"v1", "v2", "v3"}   \* timestamps of mistral_lora_<timestamp>
RowConfs == {75, 85}            \* confidences of appended retraining_data rows
StoreConfs == {50, 69, 70, 80, 95}

----------------------------------------------------------------------------
(* Learning store: LearningDatabase *)

\* store_for_training with the gate written as <= (0.7 itself is skipped)
store_for_training_le(rows, confidence) ==
    IF confidence <= TStore
      THEN rows
      ELSE Append(rows, confidence)

\* store_for_training (one INSERT, committed at once)
store_for_training(rows, confidence) ==
    IF confidence < TStore
      THEN rows
      ELSE Append(rows, confidence)

StoreCall ==
    /\ Len(store_log) < MaxCalls
    /\ \E c \in StoreConfs :
          /\ conversations' = store_for_training(conversations, c)
          /\ store_log' = Append(store_log, c)
    /\ UNCHANGED <<rd_exists, retraining_data, sched_vars, adapter_vars, synth_vars>>

\* A writer of retraining_data: one INSERT of an unconsumed row
ExternalAppend ==
    /\ rd_exists
    /\ Len(retraining_data) < MaxRows
    /\ \E c \in RowConfs :
          retraining_data' = Append(retraining_data,
                                    [confidence |-> c, used_for_training |-> FALSE])
    /\ UNCHANGED <<conversations, store_log, rd_exists, sched_vars, adapter_vars, synth_vars>>

----------------------------------------------------------------------------
(* ContinuousRetrainer *)

\* the zero statistics with the ready flag set
ZeroStats_Ready ==
    [total_samples |-> 0, new_samples |-> 0,
     high_confidence_samples |-> 0, ready_for_retrain |-> TRUE]

\* get_retraining_stats, lines 71-77 and 112-118
ZeroStats ==
    [total_samples |-> 0, new_samples |-> 0,
     high_confidence_samples |-> 0, ready_for_retrain |-> FALSE]

Unused(rows) == {i \in DOMAIN rows : ~rows[i].used_for_training}

\* WHERE used_for_training=0 AND confidence >= min_confidence
Qualifying(rows) == {i \in Unused(rows) : rows[i].confidence >= MinConfidence}

\* get_retraining_stats; a failing query (no such table) is caught and gives zeros.
\* average_confidence is only logged and is left out.
get_retraining_stats(exists, rows) ==
    IF ~exists
      THEN ZeroStats
      ELSE [total_samples |-> Len(rows),
            new_samples |-> Cardinality(Unused(rows)),
            high_confidence_samples |-> Cardinality(Qualifying(rows)),
            ready_for_retrain |-> Cardinality(Unused(rows)) >= MinSamples]

\* the UPDATE without used_for_training=0 in its WHERE, flipping the flag
MarkUsed_Toggle(rows) ==
    [i \in DOMAIN rows |->
        IF rows[i].confidence >= MinConfidence
          THEN [rows[i] EXCEPT !.used_for_training = ~rows[i].used_for_training]
          ELSE rows[i]]

\* UPDATE ... SET used_for_training=1 WHERE used_for_training=0 AND confidence >= ?
MarkUsed(rows) ==
    [i \in DOMAIN rows |->
        IF i \in Qualifying(rows)
          THEN [rows[i] EXCEPT !.used_for_training = TRUE]
          ELSE rows[i]]

\* where a process is after check_and_retrain returns: run_loop sleeps and
\* checks again, --once exits
AfterReturn(p) == IF p = "loop" THEN "Idle" ELSE "Done"

Return(p, value) ==
    /\ pc' = [pc EXCEPT ![p] = AfterReturn(p)]
    /\ ret' = [ret EXCEPT ![p] = value]

\* check_and_retrain, line 245: stats = self.get_retraining_stats()
Tick(p) ==
    /\ pc[p] = "Idle"
    /\ Len(datasets) < MaxDatasets
    /\ pc' = [pc EXCEPT ![p] = "Checking"]
    /\ stats' = [stats EXCEPT ![p] = get_retraining_stats(rd_exists, retraining_data)]
    /\ samples' = [samples EXCEPT ![p] = {}]
    /\ marked' = [marked EXCEPT ![p] = {}]
    /\ UNCHANGED <<ret, datasets, learning_vars, adapter_vars, synth_vars>>

\* check_and_retrain, line 245, when a query of get_retraining_stats raises
\* (database is locked, disk I/O error): lines 110-118 return the zeros
TickFail(p) ==
    /\ pc[p] = "Idle"
    /\ Len(datasets) < MaxDatasets
    /\ pc' = [pc EXCEPT ![p] = "Checking"]
    /\ stats' = [stats EXCEPT ![p] = ZeroStats]
    /\ samples' = [samples EXCEPT ![p] = {}]
    /\ marked' = [marked EXCEPT ![p] = {}]
    /\ UNCHANGED <<ret, datasets, learning_vars, adapter_vars, synth_vars>>

\* check_and_retrain, line 255: if stats["ready_for_retrain"]
Decide(p) ==
    /\ pc[p] = "Checking"
    /\ IF stats[p].ready_for_retrain
         THEN /\ pc' = [pc EXCEPT ![p] = "Preparing"]
              /\ UNCHANGED ret
         ELSE Return(p, FALSE)
    /\ UNCHANGED <<stats, samples, marked, datasets, learning_vars, adapter_vars, synth_vars>>

\* prepare_retraining_dataset, lines 127-131: it reads the stats again
PrepareStats(p) ==
    /\ pc[p] = "Preparing"
    /\ IF get_retraining_stats(rd_exists, retraining_data).ready_for_retrain
         THEN /\ pc' = [pc EXCEPT ![p] = "Select"]
              /\ UNCHANGED ret
         ELSE Return(p, FALSE)
    /\ UNCHANGED <<stats, samples, marked, datasets, learning_vars, adapter_vars, synth_vars>>

\* prepare_retraining_dataset, lines 140-146: SELECT ... fetchall()
Select(p) ==
    /\ pc[p] = "Select"
    /\ samples' = [samples EXCEPT ![p] = Qualifying(retraining_data)]
    /\ pc' = [pc EXCEPT ![p] = "Write"]
    /\ UNCHANGED <<stats, marked, ret, datasets, learning_vars, adapter_vars, synth_vars>>

\* prepare_retraining_dataset, lines 156-163: json.dump to retraining_batch_*.json
WriteDataset(p) ==
    /\ pc[p] = "Write"
    /\ datasets' = Append(datasets, [by |-> p, ids |-> samples[p]])
    /\ pc' = [pc EXCEPT ![p] = "Mark"]
    /\ UNCHANGED <<stats, samples, marked, ret, learning_vars, adapter_vars, synth_vars>>

\* the file cannot be written: except-branch, line 177, returns None
WriteFail(p) ==
    /\ pc[p] = "Write"
    /\ Return(p, FALSE)
    /\ UNCHANGED <<stats, samples, marked, datasets, learning_vars, adapter_vars, synth_vars>>

\* the UPDATE executed and the connection closed without commit
Mark_Uncommitted(p) ==
    /\ pc[p] = "Mark"
    /\ marked' = [marked EXCEPT ![p] = Qualifying(retraining_data)]
    /\ pc' = [pc EXCEPT ![p] = "Trigger"]
    /\ UNCHANGED <<stats, samples, ret, datasets, learning_vars, adapter_vars, synth_vars>>

\* prepare_retraining_dataset, lines 166-172: UPDATE and commit
Mark(p) ==
    /\ pc[p] = "Mark"
    /\ retraining_data' = MarkUsed(retraining_data)
    /\ marked' = [marked EXCEPT ![p] = Qualifying(retraining_data)]
    /\ pc' = [pc EXCEPT ![p] = "Trigger"]
    /\ UNCHANGED <<stats, samples, ret, datasets, conversations, store_log, rd_exists,
                   adapter_vars, synth_vars>>

\* rows updated and committed one at a time, the first of them before the error
MarkFail_Partial(p) ==
    /\ pc[p] = "Mark"
    /\ retraining_data' =
          [i \in DOMAIN retraining_data |->
              IF i \in Qualifying(retraining_data)
                 /\ \A j \in Qualifying(retraining_data) : i <= j
                THEN [retraining_data[i] EXCEPT !.used_for_training = TRUE]
                ELSE retraining_data[i]]
    /\ Return(p, FALSE)
    /\ UNCHANGED <<stats, samples, marked, datasets, conversations, store_log, rd_exists,
                   adapter_vars, synth_vars>>

\* UPDATE or commit raises (database is locked): nothing is committed, returns None
MarkFail(p) ==
    /\ pc[p] = "Mark"
    /\ Return(p, FALSE)
    /\ UNCHANGED <<stats, samples, marked, datasets, learning_vars, adapter_vars, synth_vars>>

\* options trigger_mistral_retraining passes, options train_mistral_lora.py declares
TriggerOptions == {"--epochs", "--batch-size", "--custom-dataset"}
TrainerOptions == {"--epochs", "--batch-size", "--lr", "--warmup-steps",
                   "--adapter-dir", "--data-dir", "--datasets"}

\* exit codes of the training script: argparse exits 2 on an option it does not
\* declare; otherwise main() returns normally or dies with a traceback
TrainerExitCodes(options) ==
    IF options \subseteq TrainerOptions THEN {0, 1} ELSE {2}

\* trigger_mistral_retraining, lines 195-219: formatted copy written, Popen
TriggerStart(p) ==
    /\ pc[p] = "Trigger"
    /\ pc' = [pc EXCEPT ![p] = "Training"]
    /\ UNCHANGED <<stats, samples, marked, ret, datasets, learning_vars, adapter_vars, synth_vars>>

\* an exception before the subprocess runs: line 234, returns False
TriggerFail(p) ==
    /\ pc[p] = "Trigger"
    /\ Return(p, FALSE)
    /\ UNCHANGED <<stats, samples, marked, datasets, learning_vars, adapter_vars, synth_vars>>

\* the version directory train_mistral_lora.py creates (mistral_lora_<timestamp>)
NewVersion(versions) ==
    IF AllVersions \subseteq versions THEN versions
    ELSE versions \cup {CHOOSE v \in AllVersions : v \notin versions}

\* what the training script leaves under ./adapters: main() saves a new
\* version when it trains, and returns without one when no data was loaded
SavedAdapters(returncode, versions) ==
    IF returncode = 0 THEN {versions, NewVersion(versions)} ELSE {versions}

\* a failed job whose batch is handed back to the store
TrainExit_Restore(p) ==
    /\ pc[p] = "Training"
    /\ \E returncode \in TrainerExitCodes(TriggerOptions) : Return(p, returncode = 0)
    /\ retraining_data' =
          [i \in DOMAIN retraining_data |->
              IF i \in marked[p] /\ ~ret'[p]
                THEN [retraining_data[i] EXCEPT !.used_for_training = FALSE]
                ELSE retraining_data[i]]
    /\ UNCHANGED <<stats, samples, marked, datasets, conversations, store_log, rd_exists,
                   adapter_vars, synth_vars>>

\* a job whose end repoints the production link
TrainExit_Activate(p) ==
    /\ pc[p] = "Training"
    /\ \E returncode \in TrainerExitCodes(TriggerOptions) : Return(p, returncode = 0)
    /\ link' = [kind |-> "absent", target |-> "none"]
    /\ UNCHANGED <<stats, samples, marked, datasets, learning_vars, adapters, apc,
                   aversion, aold, aret, synth_vars>>

\* trigger_mistral_retraining, lines 225-232: returncode == 0
TrainExit(p) ==
    /\ pc[p] = "Training"
    /\ \E returncode \in TrainerExitCodes(TriggerOptions) :
          /\ Return(p, returncode = 0)
          /\ adapters' \in SavedAdapters(returncode, adapters)
    /\ UNCHANGED <<stats, samples, marked, datasets, learning_vars, link, apc,
                   aversion, aold, aret, synth_vars>>

SchedStep(p) ==
    \/ Tick(p)
    \/ TickFail(p)
    \/ Decide(p)
    \/ PrepareStats(p)
    \/ Select(p)
    \/ WriteDataset(p)
    \/ WriteFail(p)
    \/ Mark(p)
    \/ MarkFail(p)
    \/ TriggerStart(p)
    \/ TriggerFail(p)
    \/ TrainExit(p)

----------------------------------------------------------------------------
(* AdapterManager *)

Callers == {"c1", "c2"}

Absent == [kind |-> "absent", target |-> "none"]
RealDir == [kind |-> "dir", target |-> "none"]
SymlinkTo(v) == [kind |-> "symlink", target |-> v]

AReturn(c, value) ==
    /\ apc' = [apc EXCEPT ![c] = "idle"]
    /\ aret' = [aret EXCEPT ![c] = value]

\* activate_adapter, lines 86-91: adapter_path.exists()
ActivateBegin(c) ==
    /\ apc[c] = "idle"
    /\ \E version \in AllVersions :
          /\ aversion' = [aversion EXCEPT ![c] = version]
          /\ aold' = [aold EXCEPT ![c] = link]
          /\ IF version \notin adapters
               THEN AReturn(c, "False")
               ELSE /\ apc' = [apc EXCEPT ![c] = "check"]
                    /\ aret' = [aret EXCEPT ![c] = "none"]
    /\ UNCHANGED <<adapters, link, learning_vars, sched_vars, synth_vars>>

\* activate_adapter that clears whatever object sits at the production path
ActivateCheck_Replace(c) ==
    /\ apc[c] = "check"
    /\ IF link.kind = "symlink"
         THEN /\ apc' = [apc EXCEPT ![c] = "unlink"]
              /\ UNCHANGED link
         ELSE /\ apc' = [apc EXCEPT ![c] = "symlink"]
              /\ link' = Absent
    /\ UNCHANGED <<adapters, aret, aversion, aold, learning_vars, sched_vars, synth_vars>>

\* activate_adapter, lines 94-98: is_symlink() / exists()
ActivateCheck(c) ==
    /\ apc[c] = "check"
    /\ IF link.kind = "symlink"
         THEN /\ apc' = [apc EXCEPT ![c] = "unlink"]
              /\ UNCHANGED aret
         ELSE IF link.kind = "dir"
           THEN AReturn(c, "False")
           ELSE /\ apc' = [apc EXCEPT ![c] = "symlink"]
                /\ UNCHANGED aret
    /\ UNCHANGED <<adapters, link, aversion, aold, learning_vars, sched_vars, synth_vars>>

\* activate_adapter, line 95: unlink(); FileNotFoundError when the link is gone
ActivateUnlink(c) ==
    /\ apc[c] = "unlink"
    /\ IF link.kind = "symlink"
         THEN /\ link' = Absent
              /\ apc' = [apc EXCEPT ![c] = "symlink"]
              /\ UNCHANGED aret
         ELSE /\ AReturn(c, "FileNotFoundError")
              /\ UNCHANGED link
    /\ UNCHANGED <<adapters, aversion, aold, learning_vars, sched_vars, synth_vars>>

\* activate_adapter that reports success without creating the link
ActivateSymlink_NoLink(c) ==
    /\ apc[c] = "symlink"
    /\ AReturn(c, "True")
    /\ UNCHANGED <<adapters, link, aversion, aold, learning_vars, sched_vars, synth_vars>>

\* activate_adapter, lines 101-106: symlink_to(); FileExistsError when the path is taken
ActivateSymlink(c) ==
    /\ apc[c] = "symlink"
    /\ IF link.kind = "absent"
         THEN /\ link' = SymlinkTo(aversion[c])
              /\ AReturn(c, "True")
         ELSE /\ AReturn(c, "FileExistsError")
              /\ UNCHANGED link
    /\ UNCHANGED <<adapters, aversion, aold, learning_vars, sched_vars, synth_vars>>

\* symlink_to() raises OSError (permission, read-only or full file system)
ActivateSymlinkFail(c) ==
    /\ apc[c] = "symlink"
    /\ AReturn(c, "OSError")
    /\ UNCHANGED <<adapters, link, aversion, aold, learning_vars, sched_vars, synth_vars>>

\* what get_active_adapter returns when nothing matches
None == [version |-> "none", is_active |-> FALSE]

\* list_adapters: one entry per version directory with an adapter_config.json;
\* is_active compares the resolved link with <version directory>/adapter
list_adapters(versions, lnk) ==
    {[version |-> v, is_active |-> (lnk.kind = "symlink" /\ lnk.target = v)] :
        v \in versions}

\* get_active_adapter: the listed entry whose directory is the parent of the
\* link's target
get_active_adapter(versions, lnk) ==
    IF lnk.kind # "symlink" THEN None
    ELSE IF \E a \in list_adapters(versions, lnk) : a.version = lnk.target
      THEN CHOOSE a \in list_adapters(versions, lnk) : a.version = lnk.target
      ELSE None

AdapterStep(c) ==
    \/ ActivateBegin(c)
    \/ ActivateCheck(c)
    \/ ActivateUnlink(c)
    \/ ActivateSymlink(c)
    \/ ActivateSymlinkFail(c)

----------------------------------------------------------------------------
(* CompleteSynthesisSystem: sources, LlamaReviewer, process_query *)

MaxQueries == 1       \* bound: process_query calls in one behaviour

\* A text is a sequence of characters; " " is whitespace.
Texts == {<<>>, <<" ">>, <<" ", "a">>}

RECURSIVE LStrip(_)
LStrip(t) == IF t = <<>> THEN t
             ELSE IF Head(t) = " " THEN LStrip(Tail(t)) ELSE t

RECURSIVE RStrip(_)
RStrip(t) == IF t = <<>> THEN t
             ELSE IF t[Len(t)] = " " THEN RStrip(SubSeq(t, 1, Len(t) - 1)) ELSE t

\* str.strip()
Strip(t) == RStrip(LStrip(t))

SourceFlags == {"use_your_llm", "use_rag", "use_cot", "use_external"}
RagConfs == {60, 85, 95}        \* data.get("confidence", 0.8): any number

Answer(source, answer, confidence) ==
    [source |-> source, answer |-> answer, confidence |-> confidence]

\* YourTrainedLLM.answer, lines 49-69 (the text is stripped, confidence 0.75)
YourTrainedLLM_answer(text) == Answer("Your Trained LLM", Strip(text), 75)

\* RAGSource.answer, lines 80-93
RAGSource_answer(text, confidence) == Answer("RAG (Pinecone)", text, confidence)

\* RAGSource.answer, lines 94-96: the request failed
RAGSource_failed == Answer("RAG (Pinecone)", <<>>, 0)

\* CoTSource.answer, lines 117-145
CoTSource_answer(text) == Answer("CoT Reasoning", text, 85)

\* ExternalSources.answer, lines 160-170
ExternalSources_answer(text) == Answer("External (gemini)", text, 85)

\* ---- what the reviewer model wrote
\* A response is a sequence of tokens: "{" and "}" are braces, "j" is the
\* well-formed members of one JSON object, "w" is any other text.
Responses == {<<>>, <<"w">>, <<"}", "w", "{">>, <<"{", "j">>,
              <<"{", "w", "}">>, <<"{", "j", "}", "{", "j", "}">>,
              <<"w", "{", "j", "}", "w">>}

Keys == {"best_answer", "confidence", "reasoning", "sources_used"}

Dict(keys, best_answer, confidence, numeric, reasoning, sources_used) ==
    [keys |-> keys, best_answer |-> best_answer, confidence |-> confidence,
     conf_numeric |-> numeric, reasoning |-> reasoning, sources_used |-> sources_used]

EmptyDict == Dict({}, <<>>, 0, TRUE, "", {})

\* objects the reviewer may have written inside the braces
Payloads ==
    { Dict(k \cup {"reasoning"},
           IF "best_answer" \in k THEN <<"a">> ELSE <<>>,
           IF "confidence" \in k /\ n THEN c ELSE 0,
           "confidence" \in k => n,
           "review",
           IF "sources_used" \in k THEN s ELSE {}) :
        k \in SUBSET {"best_answer", "confidence", "sources_used"},
        c \in {50, 95}, n \in BOOLEAN,
        s \in {{}, {"CoT Reasoning"}, {"source1"}} }

\* response texts from which lines 253-256 obtain an object
ObjectResponses == {<<"w", "{", "j", "}", "w">>}

ReviewOutputs ==
    {[raised |-> TRUE, text |-> <<>>, payload |-> EmptyDict]}
    \cup {[raised |-> FALSE, text |-> t, payload |-> EmptyDict] :
            t \in Responses \ ObjectResponses}
    \cup {[raised |-> FALSE, text |-> t, payload |-> d] :
            t \in ObjectResponses, d \in Payloads}

NotInvoked == [raised |-> FALSE, text |-> <<>>, payload |-> EmptyDict]

\* str.find: 0-based index of the first occurrence, -1 if there is none
Find(text, ch) ==
    IF \E i \in DOMAIN text : text[i] = ch
      THEN (CHOOSE i \in DOMAIN text :
               text[i] = ch /\ \A j \in 1..(i - 1) : text[j] # ch) - 1
      ELSE -1

\* str.rfind: 0-based index of the last occurrence, -1 if there is none
RFind(text, ch) ==
    IF \E i \in DOMAIN text : text[i] = ch
      THEN (CHOOSE i \in DOMAIN text :
               text[i] = ch /\ \A j \in (i + 1)..Len(text) : text[j] # ch) - 1
      ELSE -1

\* response[start:end]
Slice(text, start, end) == SubSeq(text, start + 1, end)

\* json.loads succeeds on exactly one well-formed object
JsonLoadsOk(text) == text = <<"{", "j", "}">>

\* lines 252-260: TRUE when the try block returns result.  The print formats
\* result.get('confidence', 0) with :.2f, which raises on a non-number.
ParseReturns(rv) ==
    LET start == Find(rv.text, "{")
        end == RFind(rv.text, "}") + 1
    IN  /\ start # -1
        /\ end > start
        /\ JsonLoadsOk(Slice(rv.text, start, end))
        /\ ("confidence" \in rv.payload.keys => rv.payload.conf_numeric)

\* line 200: answers whose text is not blank
valid_answers(answers) == SelectSeq(answers, LAMBDA a : Strip(a.answer) # <<>>)

\* line 263: max(valid_answers, key=confidence) returns the first maximal element
HighestConfidence(valid) ==
    valid[CHOOSE i \in DOMAIN valid :
            /\ \A j \in DOMAIN valid : valid[j].confidence <= valid[i].confidence
            /\ \A j \in 1..(i - 1) : valid[j].confidence < valid[i].confidence]

\* the insufficient-information answer carrying a storable confidence
Insufficient_Stored == Dict(Keys, <<"insufficient">>, 75, TRUE, "No valid answers received", {})

\* lines 203-208
Insufficient == Dict(Keys, <<"insufficient">>, 0, TRUE, "No valid answers received", {})

\* lines 262-269
Fallback(valid) ==
    LET best == HighestConfidence(valid)
    IN  Dict(Keys, best.answer, best.confidence, TRUE, "Selected highest confidence answer",
             {best.source})

\* review_and_synthesize with the empty check moved after the model invocation
review_and_synthesize_late(answers, rv) ==
    LET valid == valid_answers(answers)
    IN  IF rv.raised THEN [raised |-> TRUE, invoked |-> TRUE, dict |-> EmptyDict]
        ELSE IF ParseReturns(rv) THEN [raised |-> FALSE, invoked |-> TRUE, dict |-> rv.payload]
        ELSE IF valid = <<>> THEN [raised |-> FALSE, invoked |-> TRUE, dict |-> Insufficient]
        ELSE [raised |-> FALSE, invoked |-> TRUE, dict |-> Fallback(valid)]

\* LlamaReviewer.review_and_synthesize; rv is what the model invocation
\* produces; invoked tells whether lines 243-249 were reached
review_and_synthesize(answers, rv) ==
    LET valid == valid_answers(answers)
    IN  IF valid = <<>> THEN [raised |-> FALSE, invoked |-> FALSE, dict |-> Insufficient]
        ELSE IF rv.raised THEN [raised |-> TRUE, invoked |-> TRUE, dict |-> EmptyDict]
        ELSE IF ParseReturns(rv) THEN [raised |-> FALSE, invoked |-> TRUE, dict |-> rv.payload]
        ELSE [raised |-> FALSE, invoked |-> TRUE, dict |-> Fallback(valid)]

NoResponse ==
    [status |-> "none", error |-> "", synthesized_answer |-> <<>>,
     confidence |-> 0, sources |-> {}]

\* process_query, line 346
QueryStart ==
    /\ qpc \in {"idle", "returned", "raised"}
    /\ Len(store_log) < MaxQueries
    /\ qpc' = "your_llm"
    /\ all_answers' = <<>>
    /\ review' = NotInvoked
    /\ result' = EmptyDict
    /\ response' = NoResponse
    /\ UNCHANGED <<config, learning_vars, sched_vars, adapter_vars>>

\* an exception leaves process_query; error tells where it was raised
Raise(error) ==
    /\ qpc' = "raised"
    /\ response' = [NoResponse EXCEPT !.status = "exception", !.error = error]

\* process_query evaluates "if self.<source>:" and enters <source>.answer(query)
Call(at, flag, wait, next) ==
    /\ qpc = at
    /\ qpc' = IF flag \in config THEN wait ELSE next
    /\ UNCHANGED <<config, all_answers, review, result, response,
                   learning_vars, sched_vars, adapter_vars>>

\* process_query, line 348
CallYourLLM == Call("your_llm", "use_your_llm", "your_llm_wait", "rag")

\* process_query, line 349: the call returns or raises (no try in answer)
CollectYourLLM ==
    /\ qpc = "your_llm_wait"
    /\ \/ /\ \E text \in Texts :
                all_answers' = Append(all_answers, YourTrainedLLM_answer(text))
          /\ qpc' = "rag"
          /\ UNCHANGED response
       \/ /\ Raise("source")
          /\ UNCHANGED all_answers
    /\ UNCHANGED <<config, review, result, learning_vars, sched_vars, adapter_vars>>

\* process_query, line 351
CallRAG == Call("rag", "use_rag", "rag_wait", "cot")

\* process_query, line 352: the request answers, or fails or times out
CollectRAG ==
    /\ qpc = "rag_wait"
    /\ \/ \E text \in Texts, confidence \in RagConfs :
             all_answers' = Append(all_answers, RAGSource_answer(text, confidence))
       \/ all_answers' = Append(all_answers, RAGSource_failed)
    /\ qpc' = "cot"
    /\ UNCHANGED <<config, review, result, response, learning_vars, sched_vars, adapter_vars>>

\* process_query, line 354
CallCoT == Call("cot", "use_cot", "cot_wait", "external")

\* process_query, line 355: the call returns or raises (no try in answer)
CollectCoT ==
    /\ qpc = "cot_wait"
    /\ \/ /\ \E text \in Texts :
                all_answers' = Append(all_answers, CoTSource_answer(text))
          /\ qpc' = "external"
          /\ UNCHANGED response
       \/ /\ Raise("source")
          /\ UNCHANGED all_answers
    /\ UNCHANGED <<config, review, result, learning_vars, sched_vars, adapter_vars>>

\* process_query, line 357
CallExternal == Call("external", "use_external", "external_wait", "review")

\* process_query, line 358: a provider that fails adds nothing
CollectExternal ==
    /\ qpc = "external_wait"
    /\ \/ UNCHANGED all_answers
       \/ \E text \in Texts :
             all_answers' = Append(all_answers, ExternalSources_answer(text))
    /\ qpc' = "review"
    /\ UNCHANGED <<config, review, result, response, learning_vars, sched_vars, adapter_vars>>

\* process_query, line 363
Review ==
    /\ qpc = "review"
    /\ \E rv \in ReviewOutputs :
          LET r == review_and_synthesize(all_answers, rv)
          IN  /\ review' = IF r.invoked THEN rv ELSE NotInvoked
              /\ IF r.raised
                   THEN /\ Raise("review")
                        /\ UNCHANGED result
                   ELSE /\ qpc' = "store"
                        /\ result' = r.dict
                        /\ UNCHANGED response
    /\ UNCHANGED <<config, all_answers, learning_vars, sched_vars, adapter_vars>>

\* process_query, lines 369-387: result["best_answer"] and result["confidence"]
\* raise KeyError on a missing key; the others are read with .get
StoreAndReturn ==
    /\ qpc = "store"
    /\ IF {"best_answer", "confidence"} \subseteq result.keys
         THEN /\ conversations' = store_for_training(conversations, result.confidence)
              /\ store_log' = Append(store_log, result.confidence)
              /\ qpc' = "returned"
              /\ response' = [status |-> "ok", error |-> "",
                              synthesized_answer |-> result.best_answer,
                              confidence |-> result.confidence,
                              sources |-> IF "sources_used" \in result.keys
                                            THEN result.sources_used ELSE {}]
         ELSE /\ Raise("KeyError")
              /\ UNCHANGED <<conversations, store_log>>
    /\ UNCHANGED <<config, all_answers, review, result, rd_exists, retraining_data,
                   sched_vars, adapter_vars>>

\* store_for_training raises (sqlite3 error): process_query does not catch it
StoreFail ==
    /\ qpc = "store"
    /\ {"best_answer", "confidence"} \subseteq result.keys
    /\ result.confidence >= TStore
    /\ Raise("store")
    /\ UNCHANGED <<config, all_answers, review, result, learning_vars, sched_vars, adapter_vars>>

\* synthesis_api.synthesize: the HTTP status of POST /synthesize
synthesize(resp) == IF resp.status = "ok" THEN "200" ELSE "500"

NextSynth ==
    \/ QueryStart
    \/ CallYourLLM
    \/ CollectYourLLM
    \/ CallRAG
    \/ CollectRAG
    \/ CallCoT
    \/ CollectCoT
    \/ CallExternal
    \/ CollectExternal
    \/ Review
    \/ StoreAndReturn
    \/ StoreFail

----------------------------------------------------------------------------
(* Initial state *)

LearningInit ==
    /\ conversations = <<>>
    /\ store_log = <<>>
    /\ rd_exists \in BOOLEAN
    /\ retraining_data = <<>>

SchedInit ==
    /\ pc = [p \in Procs |-> "Idle"]
    /\ stats = [p \in Procs |-> ZeroStats]
    /\ samples = [p \in Procs |-> {}]
    /\ marked = [p \in Procs |-> {}]
    /\ ret = [p \in Procs |-> FALSE]
    /\ datasets = <<>>

\* the adapters directory holds some versions; the production path is free,
\* taken by a real directory, or a link to one of the versions
AdapterInit ==
    /\ adapters \in {{"v1"}, {"v1", "v2"}}
    /\ link \in {Absent, RealDir} \cup {SymlinkTo(v) : v \in adapters}
    /\ apc = [c \in Callers |-> "idle"]
    /\ aversion = [c \in Callers |-> "none"]
    /\ aold = [c \in Callers |-> Absent]
    /\ aret = [c \in Callers |-> "none"]

\* CompleteSynthesisSystem.__init__, lines 321-326
SynthInit ==
    /\ config \in SUBSET SourceFlags
    /\ qpc = "idle"
    /\ all_answers = <<>>
    /\ review = NotInvoked
    /\ result = EmptyDict
    /\ response = NoResponse

\* one deployment: every source configured, v1 in production
AdapterFixed == AdapterInit /\ adapters = {"v1", "v2"} /\ link = SymlinkTo("v1")
SynthFixed == SynthInit /\ config = SourceFlags
LearningFixed == LearningInit /\ rd_exists

Init == LearningInit /\ SchedInit /\ AdapterInit /\ SynthInit

NextSched == ExternalAppend \/ \E p \in Procs : SchedStep(p)

NextAdapter == \E c \in Callers : AdapterStep(c)

NextStore == StoreCall

Next == NextSched \/ NextAdapter \/ NextStore \/ NextSynth

\* the whole pipeline
Spec == Init /\ [][Next]_vars

\* the retraining scheduler over the learning store
InitSched == LearningInit /\ SchedInit /\ AdapterFixed /\ SynthFixed
SpecSched == InitSched /\ [][NextSched]_vars

\* the adapter manager
InitAdapter == LearningFixed /\ SchedInit /\ AdapterInit /\ SynthFixed
SpecAdapter == InitAdapter /\ [][NextAdapter]_vars

\* one activate_adapter call at a time and no file-system fault; the
\* production path may hold a link whose version directory is gone
NextAdapterSeq ==
    \/ ActivateBegin("c1")
    \/ ActivateCheck("c1")
    \/ ActivateUnlink("c1")
    \/ ActivateSymlink("c1")
InitAdapterSeq ==
    /\ LearningFixed /\ SchedInit /\ SynthFixed
    /\ adapters \in {{"v1"}, {"v1", "v2"}, {"v1", "v2", "v3"}}
    /\ link \in {Absent, RealDir} \cup {SymlinkTo(v) : v \in AllVersions}
    /\ apc = [c \in Callers |-> "idle"]
    /\ aversion = [c \in Callers |-> "none"]
    /\ aold = [c \in Callers |-> Absent]
    /\ aret = [c \in Callers |-> "none"]
SpecAdapterSeq == InitAdapterSeq /\ [][NextAdapterSeq]_vars

\* LearningDatabase.store_for_training called directly
InitStore == LearningFixed /\ SchedInit /\ AdapterFixed /\ SynthFixed
SpecStore == InitStore /\ [][NextStore]_vars

\* the two flows over knowledge.db: answers stored, the scheduler checking
NextFlow == StoreCall \/ \E p \in Procs : Tick(p) \/ Decide(p)
InitFlow == LearningInit /\ SchedInit /\ AdapterFixed /\ SynthFixed
SpecFlow == InitFlow /\ [][NextFlow]_vars

\* the loop scheduler and one activate_adapter caller over the same directories
NextSchedAdapter == ExternalAppend \/ SchedStep("loop") \/ AdapterStep("c1")
InitSchedAdapter == LearningFixed /\ SchedInit /\ AdapterInit /\ SynthFixed
SpecSchedAdapter == InitSchedAdapter /\ [][NextSchedAdapter]_vars

\* one process_query
InitSynth == LearningFixed /\ SchedInit /\ AdapterFixed /\ SynthInit
SpecSynth == InitSynth /\ [][NextSynth]_vars

\* process_query runs on: every statement it reaches is executed and
\* requests.post returns within its timeout (line 84); the generate calls of
\* the other sources have no timeout and may never return
Proceeds ==
    \/ CallYourLLM
    \/ CallRAG
    \/ CallCoT
    \/ CallExternal
    \/ CollectRAG
    \/ Review
    \/ StoreAndReturn
SpecSynthFair == SpecSynth /\ WF_vars(Proceeds)


----------------------------------------------------------------------------
(* Claims *)

InCycle(p) == pc[p] \notin {"Idle", "Done"}

\* C1: check_and_retrain leaves Checking for Preparing if and only if the
\* number of unconsumed records with confidence >= min_confidence that it
\* counted is at least min_samples.
C1_TriggerIffQualifying ==
    [][\A p \in Procs :
          (pc[p] = "Checking" /\ pc'[p] # "Checking")
             => (pc'[p] = "Preparing"
                    <=> stats[p].high_confidence_samples >= MinSamples)]_vars

\* C2: when prepare_retraining_dataset has marked its batch, the rows it
\* marked consumed are exactly the rows it wrote into the dataset file.
C2_MarkedIsDataset ==
    \A p \in Procs : pc[p] = "Trigger" => marked[p] = samples[p]

\* C4: no row is written into more than one dataset file.
C4_AtMostOneDataset ==
    \A i, j \in DOMAIN datasets :
        i # j => datasets[i].ids \cap datasets[j].ids = {}

\* C5: at most one check/train cycle is in progress over the store.
C5_OneCycleAtATime ==
    \A p, q \in Procs : (InCycle(p) /\ InCycle(q)) => p = q

\* C8: a row's used_for_training only ever goes from false to true, and no
\* row of retraining_data is deleted or rewritten.
C8_ConsumedNeverReverts ==
    [][/\ Len(retraining_data') >= Len(retraining_data)
       /\ \A i \in DOMAIN retraining_data :
             /\ retraining_data'[i].confidence = retraining_data[i].confidence
             /\ retraining_data[i].used_for_training
                   => retraining_data'[i].used_for_training]_vars

\* a cycle marked rows and has ended, and an unconsumed row is in the store
\* beside the consumed ones
C8_Witness ==
    \E p \in Procs :
        /\ pc[p] = AfterReturn(p)
        /\ marked[p] # {}
        /\ \A i \in marked[p] : retraining_data[i].used_for_training
        /\ Unused(retraining_data) # {}

\* C3: while activate_adapter runs on a manager whose production pointer named
\* an existing version when the call began, the pointer names the old or the
\* new version in every state.
C3_PointerNeverAbsent ==
    \A c \in Callers :
        (apc[c] # "idle" /\ aold[c].kind = "symlink" /\ aold[c].target \in adapters)
           => link \in {aold[c], SymlinkTo(aversion[c])}

\* C6: what store_for_training persisted is what the scheduler's check counts:
\* a check sees every stored row as an unconsumed sample, and is ready once
\* min_samples rows of at least min_confidence have been stored.
C6_StoredRowsReachScheduler ==
    [][\A p \in Procs :
          (pc[p] = "Idle" /\ pc'[p] = "Checking")
             => /\ stats'[p].new_samples >= Len(conversations)
                /\ Cardinality({i \in DOMAIN conversations :
                                   conversations[i] >= MinConfidence}) >= MinSamples
                      => stats'[p].ready_for_retrain]_vars

\* C7: the rows of conversations are exactly the calls of store_for_training
\* with confidence >= 0.7, one row per such call, in call order.
C7_ConfidenceGate ==
    /\ \A i \in DOMAIN conversations : conversations[i] >= TStore
    /\ Len(conversations) =
          Cardinality({i \in DOMAIN store_log : store_log[i] >= TStore})
    /\ conversations = SelectSeq(store_log, LAMBDA c : c >= TStore)

\* confidences 0.5, 0.8, 0.95 were stored and two rows are persisted
C7_Witness ==
    /\ store_log = <<50, 80, 95>>
    /\ Len(conversations) = 2

SourceIds(answers) == {answers[i].source : i \in DOMAIN answers}

\* C9: when review_and_synthesize returns for a non-empty candidate list, its
\* sources_used are source ids of the candidates.
C9_SourcesAreCandidates ==
    (qpc = "store" /\ all_answers # <<>> /\ "sources_used" \in result.keys)
       => result.sources_used \subseteq SourceIds(all_answers)

\* the review step failed: the invocation raised, or no JSON object with a
\* best_answer and a numeric confidence came out of it
ReviewFailed(rv) ==
    \/ rv.raised
    \/ rv.text \notin ObjectResponses
    \/ ~({"best_answer", "confidence"} \subseteq rv.payload.keys)
    \/ ~rv.payload.conf_numeric

\* C10: if the review step failed, review_and_synthesize returned the
\* candidate of highest confidence (the earliest of them): its text, its
\* confidence, sources_used = {its source}.
C10_FallbackIsBest ==
    (qpc \in {"store", "returned", "raised"} /\ review # NotInvoked /\ ReviewFailed(review))
       => LET best == HighestConfidence(valid_answers(all_answers))
          IN  /\ result.keys = Keys
              /\ result.best_answer = best.answer
              /\ result.confidence = best.confidence
              /\ result.sources_used = {best.source}

\* process_query has the result of the review step in hand
Reviewed == qpc \in {"store", "returned", "raised"} /\ response.error # "source"

\* C11: with at least one candidate, a failed review step (the invocation
\* raised, no JSON object, or an object without best_answer / confidence)
\* ends in the highest-confidence fallback, and neither review_and_synthesize
\* nor process_query raises because of it.
C11_ReviewFailureFallsBack ==
    (Reviewed /\ valid_answers(all_answers) # <<>> /\ ReviewFailed(review))
       => /\ response.error \notin {"review", "KeyError"}
          /\ result = Fallback(valid_answers(all_answers))

\* C12: when no answer has text, review_and_synthesize returns the fixed
\* insufficient-information answer, confidence 0.0 and empty sources_used,
\* and the review model is not invoked.
C12_EmptyIsInsufficient ==
    (Reviewed /\ valid_answers(all_answers) = <<>>)
       => /\ response.error # "review"
          /\ result = Insufficient
          /\ result.confidence = 0
          /\ result.sources_used = {}
          /\ review = NotInvoked

\* no source is configured, the answer list is empty and the review returned
C12_Witness ==
    /\ qpc = "store"
    /\ all_answers = <<>>
    /\ result.reasoning = "No valid answers received"

\* C13: when exactly one candidate was collected, the result is that
\* candidate's text and confidence and the review model was not invoked.
C13_SingleCandidateVerbatim ==
    (Reviewed /\ Len(all_answers) = 1 /\ Len(valid_answers(all_answers)) = 1)
       => /\ review = NotInvoked
          /\ response.error # "review"
          /\ result.best_answer = all_answers[1].answer
          /\ result.confidence = all_answers[1].confidence

\* C14: a source whose answer call fails contributes no candidate and no
\* error reaches the caller of process_query.
C14_SourceFailureContained ==
    ~(qpc = "raised" /\ response.error = "source")

\* C15: once the review step has produced an answer, the caller of
\* process_query and of /synthesize gets it, whether or not
\* store_for_training raises.
C15_StoreFailureStillAnswers ==
    (qpc \in {"returned", "raised"} /\ response.error \notin {"source", "review", "KeyError"})
       => /\ response.status = "ok"
          /\ response.synthesized_answer = result.best_answer
          /\ synthesize(response) = "200"

\* caller c took a step of activate_adapter
Stepped(c) ==
    <<apc[c], aret[c], aversion[c], aold[c]>> # <<apc'[c], aret'[c], aversion'[c], aold'[c]>>

\* C16: activate_adapter refuses exactly when the version has no adapter
\* storage or the production path holds something that is not a symlink; it
\* then returns False and the link path and the version directories are
\* unchanged.
C16_RefusalChangesNothing ==
    [][\A c \in Callers :
          /\ (Stepped(c) /\ apc[c] = "idle" /\ aversion'[c] \notin adapters)
                => aret'[c] = "False"
          /\ (Stepped(c) /\ apc[c] = "check" /\ link.kind = "dir")
                => aret'[c] = "False"
          /\ (Stepped(c) /\ aret'[c] = "False")
                => /\ apc'[c] = "idle"
                   /\ link' = link
                   /\ adapters' = adapters]_vars

\* a call for an existing version was refused because the production path
\* is a real directory, which is still there
C16_Witness ==
    \E c \in Callers :
        /\ apc[c] = "idle"
        /\ aret[c] = "False"
        /\ aversion[c] \in adapters
        /\ link = RealDir

\* C17: a call activate_adapter(v) for a listed version v, started with the
\* production path free or a symlink, returns True; get_active_adapter then
\* returns the entry of v, and v is the one entry flagged is_active.
C17_ActivateThenCurrent ==
    (/\ apc["c1"] = "idle"
     /\ aret["c1"] # "none"
     /\ aversion["c1"] \in adapters
     /\ aold["c1"].kind # "dir")
       => /\ aret["c1"] = "True"
          /\ get_active_adapter(adapters, link) =
                [version |-> aversion["c1"], is_active |-> TRUE]
          /\ {a.version : a \in {b \in list_adapters(adapters, link) : b.is_active}}
                = {aversion["c1"]}

\* v2 was activated over a link to another version
C17_Witness ==
    /\ apc["c1"] = "idle"
    /\ aret["c1"] = "True"
    /\ aversion["c1"] = "v2"
    /\ aold["c1"].kind = "symlink"
    /\ aold["c1"].target # "v2"
    /\ link = SymlinkTo("v2")

\* C18: two activate_adapter calls on existing versions, interleaved in any
\* way, both return without an error and the pointer then names the version
\* of one of them.
C18_ConcurrentActivationsResolve ==
    /\ \A c \in Callers : aret[c] \notin {"FileNotFoundError", "FileExistsError"}
    /\ (\A c \in Callers : apc[c] = "idle" /\ aret[c] = "True")
          => link \in {SymlinkTo(aversion[c]) : c \in Callers}

\* C19: when symlink_to raised in a call that found a version active, the
\* production path still holds a link to a version afterwards.
C19_FailedPromotionKeepsOld ==
    \A c \in Callers :
        (apc[c] = "idle" /\ aret[c] = "OSError" /\ aold[c].kind = "symlink")
           => link.kind = "symlink"

\* the places of process_query, in program order
Places ==
    <<"your_llm", "your_llm_wait", "rag", "rag_wait", "cot", "cot_wait",
      "external", "external_wait", "review", "store", "returned", "raised">>
Place(q) == CHOOSE i \in DOMAIN Places : Places[i] = q
WaitOf(flag) ==
    CASE flag = "use_your_llm" -> "your_llm_wait"
      [] flag = "use_rag" -> "rag_wait"
      [] flag = "use_cot" -> "cot_wait"
      [] flag = "use_external" -> "external_wait"

\* the call of the source of this flag has been entered
Dispatched(flag) == qpc # "idle" /\ Place(qpc) >= Place(WaitOf(flag))

\* C20: while process_query waits for one source, the query has been
\* dispatched to every configured source.
C20_AllDispatchedBeforeWaiting ==
    (qpc \in {WaitOf(f) : f \in SourceFlags})
       => \A f \in config : Dispatched(f)

\* C21: once process_query has begun collecting, it reaches the review step
\* (or raises): a source that does not return is cut off by a deadline.
C21_CollectionTerminates ==
    (qpc = "your_llm") ~> (qpc \in {"review", "raised"})

\* C22: while the training subprocess of a cycle runs, every row of the
\* cycle's dataset is committed as consumed.
C22_ConsumedBeforeTraining ==
    \A p \in Procs :
        pc[p] = "Training"
           => \A i \in samples[p] : retraining_data[i].used_for_training

\* the training subprocess runs on a dataset of at least one row
C22_Witness ==
    \E p \in Procs : pc[p] = "Training" /\ samples[p] # {}

\* C23: when the training job fails (trigger raises, or the subprocess ends
\* with a non-zero code), check_and_retrain returns False, run_loop is back
\* at Idle, and the store, with the batch consumed, is left as it is.
C23_FailedJobKeepsBatch ==
    [][\A p \in Procs :
          /\ (pc[p] = "Training" /\ pc'[p] # "Training"
                 /\ 0 \notin TrainerExitCodes(TriggerOptions))
                => ~ret'[p]
          /\ (\/ pc[p] = "Trigger" /\ pc'[p] \notin {"Trigger", "Training"}
              \/ pc[p] = "Training" /\ pc'[p] # "Training" /\ ~ret'[p])
                => /\ ~ret'[p]
                   /\ pc'[p] = AfterReturn(p)
                   /\ p = "loop" => pc'[p] = "Idle"
                   /\ retraining_data' = retraining_data
                   /\ \A i \in marked[p] : retraining_data'[i].used_for_training]_vars

\* run_loop is back at Idle after a cycle that marked a batch and whose
\* training job failed
C23_Witness ==
    /\ pc["loop"] = "Idle"
    /\ ~ret["loop"]
    /\ marked["loop"] # {}
    /\ \A i \in marked["loop"] : retraining_data[i].used_for_training

\* C24: no step of the scheduler changes the production link or removes a
\* version; the link changes only in a step of activate_adapter.
C24_SchedulerLeavesPointer ==
    [][/\ sched_vars' # sched_vars => (link' = link /\ adapters \subseteq adapters')
       /\ link' # link
             => \E c \in Callers :
                   apc[c] \in {"unlink", "symlink"} /\ apc'[c] # apc[c]]_vars

\* a cycle marked its batch and ended while activate_adapter was never
\* called: the link is the one of the start
C24_Witness ==
    /\ pc["loop"] = "Idle"
    /\ marked["loop"] # {}
    /\ apc["c1"] = "idle"
    /\ aret["c1"] = "none"
    /\ link.kind = "symlink"

\* C25: right after the mark step, applying the same UPDATE again leaves
\* retraining_data as it is.
C25_MarkIdempotent ==
    [][\A p \in Procs :
          (pc[p] = "Mark" /\ pc'[p] = "Trigger")
             => MarkUsed(retraining_data') = retraining_data']_vars

\* the mark step consumed rows and left an unconsumed row beside them
C25_Witness ==
    \E p \in Procs :
        /\ pc[p] = "Trigger"
        /\ marked[p] # {}
        /\ Unused(retraining_data) # {}

\* the rows a process fetched are all consumed or all unconsumed
AllOrNone(rows, ids) ==
    \/ \A i \in ids : rows[i].used_for_training
    \/ \A i \in ids : ~rows[i].used_for_training

\* C26: the rows of a batch are all consumed or all unconsumed in every
\* state; a flag changes only in a mark step that goes on to trigger; and
\* when prepare_retraining_dataset returns None the store is unchanged.
C26_MarkAllOrNothing ==
    [][/\ \A p \in Procs : AllOrNone(retraining_data, samples[p])
       /\ \A p \in Procs : AllOrNone(retraining_data', samples'[p])
       /\ \A i \in DOMAIN retraining_data :
             retraining_data'[i].used_for_training # retraining_data[i].used_for_training
                => \E p \in Procs : pc[p] = "Mark" /\ pc'[p] = "Trigger"
       /\ \A p \in Procs :
             (pc[p] \in {"Preparing", "Select", "Write", "Mark"}
                 /\ pc'[p] = AfterReturn(p))
                => retraining_data' = retraining_data]_vars

\* prepare_retraining_dataset fetched a batch of two rows and returned None:
\* both rows are unconsumed
C26_Witness ==
    \E p \in Procs :
        /\ pc[p] = AfterReturn(p)
        /\ Cardinality(samples[p]) >= 2
        /\ marked[p] = {}
        /\ \A i \in samples[p] : ~retraining_data[i].used_for_training

\* C27: the subprocess started by a triggered cycle ends with exit status 0,
\* check_and_retrain returns True and list_adapters has a new version.
C27_TrainingRunSucceeds ==
    [][\A p \in Procs :
          (pc[p] = "Training" /\ pc'[p] # "Training")
             => /\ ret'[p]
                /\ list_adapters(adapters', link') # list_adapters(adapters, link)]_vars

\* C28: the check that follows a cycle which marked its batch, with no row
\* appended since that cycle's check, is not ready for retraining.
C28_BacklogTriggersOnce ==
    [][\A p \in Procs :
          (/\ pc[p] = "Idle" /\ pc'[p] = "Checking"
           /\ marked[p] # {}
           /\ Len(retraining_data) = stats[p].total_samples)
             => ~stats'[p].ready_for_retrain]_vars

\* C29: with the relation missing get_retraining_stats returns the zeros,
\* whose ready flag is False; check_and_retrain then returns False and
\* neither the store nor the dataset files change.
C29_StatsFailureIsNotReady ==
    [][\A p \in Procs :
          /\ (pc[p] = "Idle" /\ pc'[p] = "Checking" /\ ~rd_exists)
                => stats'[p] = ZeroStats
          /\ (pc[p] = "Checking" /\ pc'[p] # "Checking" /\ stats[p] = ZeroStats)
                => /\ pc'[p] = AfterReturn(p)
                   /\ ~ret'[p]
                   /\ retraining_data' = retraining_data
                   /\ datasets' = datasets]_vars

\* --once ran against a database without the relation and has exited
C29_Witness ==
    /\ ~rd_exists
    /\ pc["once"] = "Done"
    /\ stats["once"] = ZeroStats
    /\ ~ret["once"]
    /\ datasets = <<>>

\* C30: when no collected answer has text, the result has confidence 0.0
\* and the store step adds no row to conversations.
C30_InsufficientNotLearned ==
    [][(qpc = "store" /\ qpc' # "store" /\ valid_answers(all_answers) = <<>>)
          => /\ result.confidence = 0
             /\ conversations' = conversations]_vars

\* answers were collected and none has text; process_query returned and
\* nothing was stored
C30_Witness ==
    /\ qpc = "returned"
    /\ all_answers # <<>>
    /\ valid_answers(all_answers) = <<>>
    /\ store_log # <<>>
    /\ conversations = <<>>

====
